---------------------------- MODULE Spec2Model ----------------------------
(***************************************************************************)
(* A model of the file watcher of src/main.py (class                       *)
(* AutomaticLatestHandler) and of the download bot of src/bot.py.          *)
(*                                                                         *)
(* Python lets a later "def" of a class body replace an earlier one, so    *)
(* the methods that run are the LAST definitions of main.py:               *)
(*   _process_file_automatic  lines 892-1019                               *)
(*   _check_latest_10_files   lines 778-844                                *)
(*   _monitor_upload_realtime lines 1200-1232                              *)
(*   _check_upload_completion_api lines 1250-1291                          *)
(* The method _find_any_recent_video is called (lines 840, 947) and is     *)
(* defined nowhere in src/.                                                *)
(*                                                                         *)
(* File names are sequences of one-character strings.                      *)
(***************************************************************************)
EXTENDS Integers, Sequences, FiniteSets, TLC

(***************************************************************************)
(* Python str operations                                                   *)
(***************************************************************************)
UpperSeq == <<"A","B","C","D","E","F","G","H","I","J","K","L","M",
              "N","O","P","Q","R","S","T","U","V","W","X","Y","Z">>

LowerSeq == <<"a","b","c","d","e","f","g","h","i","j","k","l","m",
              "n","o","p","q","r","s","t","u","v","w","x","y","z">>

DigitChars == {"0","1","2","3","4","5","6","7","8","9"}

SpaceChars == {" "}

Range(s) == {s[i] : i \in DOMAIN s}

\* \w of the re module: letters, digits and the underscore
WordChars == Range(UpperSeq) \cup Range(LowerSeq) \cup DigitChars \cup {"_"}

LowerChar(c) ==
    IF \E i \in DOMAIN UpperSeq : UpperSeq[i] = c
    THEN LowerSeq[CHOOSE i \in DOMAIN UpperSeq : UpperSeq[i] = c]
    ELSE c

\* str.lower()
Lower(s) == [i \in DOMAIN s |-> LowerChar(s[i])]

\* s[i:] with i counted from 1
Drop(s, n) == SubSeq(s, n + 1, Len(s))

\* s[:n]
Take(s, n) == SubSeq(s, 1, IF n < Len(s) THEN n ELSE Len(s))

\* s.startswith(p) at position i (1-based)
MatchAt(s, p, i) ==
    /\ i + Len(p) - 1 <= Len(s)
    /\ \A k \in 1..Len(p) : s[i + k - 1] = p[k]

\* "sub in s"
Contains(s, sub) == \E i \in 1..(Len(s) - Len(sub) + 1) : MatchAt(s, sub, i)

\* str.replace(old, new): leftmost, non-overlapping occurrences; old is not empty
RECURSIVE Replace(_, _, _)
Replace(s, old, new) ==
    IF Len(s) = 0 THEN << >>
    ELSE IF MatchAt(s, old, 1) THEN new \o Replace(Drop(s, Len(old)), old, new)
    ELSE <<s[1]>> \o Replace(Drop(s, 1), old, new)

\* str.isdigit(): not empty and every character a digit
IsDigit(s) == Len(s) > 0 /\ \A i \in DOMAIN s : s[i] \in DigitChars

\* str.strip()
RECURSIVE LStrip(_)
LStrip(s) == IF Len(s) > 0 /\ s[1] \in SpaceChars THEN LStrip(Drop(s, 1)) ELSE s

RECURSIVE RStrip(_)
RStrip(s) ==
    IF Len(s) > 0 /\ s[Len(s)] \in SpaceChars THEN RStrip(Take(s, Len(s) - 1)) ELSE s

Strip(s) == RStrip(LStrip(s))

\* the first whitespace-delimited word of a string that starts with a non-space
RECURSIVE FirstWord(_)
FirstWord(s) ==
    IF Len(s) = 0 \/ s[1] \in SpaceChars THEN << >>
    ELSE <<s[1]>> \o FirstWord(Drop(s, 1))

\* str.split() without arguments: the words between runs of whitespace
RECURSIVE Split(_)
Split(s) ==
    LET t == LStrip(s) IN
    IF Len(t) = 0 THEN << >>
    ELSE LET w == FirstWord(t) IN <<w>> \o Split(Drop(t, Len(w)))

(***************************************************************************)
(* The regular expressions of _prepare_search_terms, each given by the     *)
(* length of its match at a position (0 when it does not match there).     *)
(***************************************************************************)
DigitsAt(s, i, n) ==
    /\ i + n - 1 <= Len(s)
    /\ \A k \in 0..(n - 1) : s[i + k] \in DigitChars

PatternMatchLen(pat, s, i) ==
    CASE pat.kind = "d4" ->                      \* \d{4}
            IF DigitsAt(s, i, 4) THEN 4 ELSE 0
      [] pat.kind = "sd2" ->                     \* s\d{2}
            IF s[i] = "s" /\ DigitsAt(s, i + 1, 2) THEN 3 ELSE 0
      [] pat.kind = "d34p" ->                    \* \d{3,4}p, greedy
            IF DigitsAt(s, i, 4) /\ i + 4 <= Len(s) /\ s[i + 4] = "p" THEN 5
            ELSE IF DigitsAt(s, i, 3) /\ i + 3 <= Len(s) /\ s[i + 3] = "p" THEN 4
            ELSE 0
      [] pat.kind = "lit" ->                     \* a literal word
            IF MatchAt(s, pat.lit, i) THEN Len(pat.lit) ELSE 0
      [] pat.kind = "nonword" ->                 \* [^\w\s]
            IF s[i] \notin WordChars /\ s[i] \notin SpaceChars THEN 1 ELSE 0
      [] pat.kind = "spaces" ->                  \* \s+
            LET RECURSIVE Run(_)
                Run(j) == IF j <= Len(s) /\ s[j] \in SpaceChars THEN 1 + Run(j + 1) ELSE 0
            IN Run(i)

\* re.sub(pat, repl, s): leftmost non-overlapping matches, scanning from position i
RECURSIVE SubFrom(_, _, _, _)
SubFrom(pat, repl, s, i) ==
    IF i > Len(s) THEN << >>
    ELSE LET n == PatternMatchLen(pat, s, i) IN
         IF n > 0 THEN repl \o SubFrom(pat, repl, s, i + n)
         ELSE <<s[i]>> \o SubFrom(pat, repl, s, i + 1)

ReSub(pat, repl, s) == SubFrom(pat, repl, s, 1)


(***************************************************************************)
(* File names and the literals of the matcher                              *)
(***************************************************************************)
ExtMkv == <<".","m","k","v">>

ExtMp4 == <<".","m","p","4">>

ExtMov == <<".","m","o","v">>

\* patterns_to_remove of _prepare_search_terms, in the order of the source
PatternsToRemove ==
    << [kind |-> "d4"],
       [kind |-> "sd2"],
       [kind |-> "d34p"],
       [kind |-> "lit", lit |-> <<"w","e","b","-","d","l">>],
       [kind |-> "lit", lit |-> <<"h","d","t","v">>],
       [kind |-> "lit", lit |-> <<"b","l","u","r","a","y">>],
       [kind |-> "lit", lit |-> <<"h","i","n","d","i">>],
       [kind |-> "lit", lit |-> <<"e","n","g","l","i","s","h">>],
       [kind |-> "lit", lit |-> <<"b","o","r","n"," ","a","g","a","i","n">>],
       [kind |-> "lit", lit |-> <<"d","a","r","e","d","e","v","i","l">>] >>

\* base_filename = filename.replace('.mkv', '').lower()   (line 895)
BaseFilename(filename) == Lower(Replace(filename, ExtMkv, << >>))

\* a fault: the extension is removed before the name is lower-cased, as in line 895
OriginalClean_replace_first(original_filename) ==
    Lower(Replace(original_filename, ExtMkv, << >>))

\* original_filename.lower().replace('.mkv', '')   (lines 250, 283, 300, 312)
OriginalClean(original_filename) == Replace(Lower(original_filename), ExtMkv, << >>)

\* item_clean.replace('.mkv', '').replace('.mp4', '').replace('.mov', '')
ItemBase(item_clean) ==
    Replace(Replace(Replace(item_clean, ExtMkv, << >>), ExtMp4, << >>), ExtMov, << >>)

\* the words w of a list with len(w) > 3 and not w.isdigit(), in order
RECURSIVE MeaningfulWords(_)
MeaningfulWords(words) ==
    IF Len(words) = 0 THEN << >>
    ELSE LET w == words[1] IN
         (IF Len(w) > 3 /\ ~IsDigit(w) THEN <<w>> ELSE << >>)
            \o MeaningfulWords(Tail(words))

\* the loop "for pattern in patterns_to_remove: simplified = re.sub(pattern, '', ...)"
RECURSIVE RemovePatterns(_, _)
RemovePatterns(s, k) ==
    IF k > Len(PatternsToRemove) THEN s
    ELSE RemovePatterns(ReSub(PatternsToRemove[k], << >>, s), k + 1)

Simplified(base_filename) ==
    LET removed == RemovePatterns(Lower(base_filename), 1)
        spaced  == ReSub([kind |-> "nonword"], <<" ">>, removed)
    IN  Strip(ReSub([kind |-> "spaces"], <<" ">>, spaced))

\* _prepare_search_terms: the set of terms (the source returns list(set(...)))
prepare_search_terms(base_filename, original_filename) ==
    LET simplified == Simplified(base_filename)
        main_words == MeaningfulWords(Split(OriginalClean(original_filename)))
        terms ==
            {Lower(base_filename), OriginalClean(original_filename)}
            \cup (IF Len(simplified) > 3 THEN {simplified} ELSE {})
            \cup Range(Take(main_words, 3))
    IN  {t \in terms : Len(t) > 2}

Min(a, b) == IF a < b THEN a ELSE b

\* a fault: the word rule asks for three matching words
EnoughMatchingWords_three(n) == n >= 3

\* line 319: len(matching_words) >= 2
EnoughMatchingWords(n) == n >= 2

\* _enhanced_filename_match: the strategy that accepts, "none" for None
enhanced_filename_match(search_terms, item_filename, original_filename) ==
    LET item_clean     == Lower(item_filename)
        original_clean == OriginalClean(original_filename)
        item_base      == ItemBase(item_clean)
        original_words == Range(Split(original_clean))
        item_words     == Range(Split(item_base))
        meaningful     == {w \in original_words : Len(w) > 3 /\ ~IsDigit(w)}
        matching_words == meaningful \cap item_words
        first_part     == Take(original_clean, Min(15, Len(original_clean) \div 2))
    IN  IF original_clean = item_base THEN "exact_filename_match"
        ELSE IF \E term \in search_terms : Len(term) > 3 /\ Contains(item_clean, term)
             THEN "search_term_match"
        ELSE IF EnoughMatchingWords(Cardinality(matching_words)) THEN "word_match"
        ELSE IF Len(original_clean) > 10 /\ Contains(item_clean, first_part)
             THEN "partial_match"
        ELSE "none"


(***************************************************************************)
(* Remote media records (the dicts of mediaItems().list()).                *)
(*   ctime is what parser.parse makes of mediaMetadata.creationTime:       *)
(*     "missing"  the string is empty                                      *)
(*     "naive"    a datetime without tzinfo                                *)
(*     "aware"    a datetime with tzinfo (a string ending in Z or an       *)
(*                offset, the form the Photos API documents)               *)
(*   t is creation_time - upload_start_time in seconds.  upload_start_time *)
(*   is datetime.now() (line 896), a naive datetime: subtracting it from   *)
(*   an aware datetime raises TypeError.                                   *)
(***************************************************************************)
VideoMimes == {"video/mp4", "video/x-matroska"}

\* item_mime.startswith('video/')
IsVideo(item) == item.mime \in VideoMimes

MediaItem(filename, mime, ctime, t, id, productUrl, baseUrl) ==
    [nil |-> FALSE, filename |-> filename, mime |-> mime, ctime |-> ctime, t |-> t,
     id |-> id, productUrl |-> productUrl, baseUrl |-> baseUrl]

\* Python's None where a media item is expected
NoItem ==
    [nil |-> TRUE, filename |-> << >>, mime |-> "", ctime |-> "missing", t |-> 0,
     id |-> "", productUrl |-> "", baseUrl |-> ""]

\* The result of self.google_photos_service.mediaItems().list(...).execute():
\*   "no_service"  google_photos_service is None (lines 79-83)
\*   "error"       the call raises
\*   "ok"          results.get('mediaItems', [])
Listing(status, items) == [status |-> status, items |-> items]

Abs(x) == IF x < 0 THEN 0 - x ELSE x

\* the window of _find_latest_uploaded_file (line 1406) and of
\* _check_upload_completion_api (line 1280), in seconds
WindowSeconds == 3600

\* the tolerance before the start time of _check_upload_completion_api (line 1280)
ToleranceSeconds == 300

\* lines 1399-1404 for one item: TRUE when creation_time - upload_start_time
\* is computed (no exception)
TimeDiffComputed(item) == item.ctime = "naive"

(***************************************************************************)
(* _find_any_recent_video is called at lines 840 and 947 and no class or   *)
(* module of src/ defines it: the attribute lookup raises AttributeError.  *)
(* Should the method exist outside src/, it is the time-window fallback of *)
(* spec section 4.3 rule 4: the most recently created video record whose   *)
(* creation time is within the window after the file was queued.           *)
(***************************************************************************)
find_any_recent_video(media_items) ==
    LET cands == {i \in DOMAIN media_items :
                     /\ IsVideo(media_items[i])
                     /\ media_items[i].ctime # "missing"
                     /\ media_items[i].t >= 0
                     /\ media_items[i].t < WindowSeconds}
    IN  IF cands = {} THEN {NoItem}
        ELSE {media_items[i] : i \in {j \in cands :
                     \A k \in cands : media_items[k].t <= media_items[j].t}}

\* main.py: whether the handler object has a method _find_any_recent_video
VARIABLE has_find_any_recent_video

\* main.py: whether api.telegram.org answers the requests of this run with 200
VARIABLE telegram_api

\* What the call self._find_any_recent_video(...) does: it raises
\* AttributeError when the handler has no such method (the code of src/), and
\* returns what the method returns when it has
FindAnyRecentVideoCall(media_items) ==
    IF ~has_find_any_recent_video THEN {[raised |-> TRUE, item |-> NoItem]}
    ELSE {[raised |-> FALSE, item |-> x] : x \in find_any_recent_video(media_items)}

(***************************************************************************)
(* _check_latest_10_files (lines 778-844)                                  *)
(***************************************************************************)
\* lines 803-813 for one item: the match result of a video item
ItemNameMatch(item, base_filename, original_filename) ==
    IF IsVideo(item)
    THEN enhanced_filename_match(prepare_search_terms(base_filename, original_filename),
                                 Lower(item.filename), original_filename)
    ELSE "none"

\* the loop of lines 801-825: the first item whose match result is not None
FirstNameMatch(items, base_filename, original_filename) ==
    LET hits == {i \in DOMAIN items :
                    ItemNameMatch(items[i], base_filename, original_filename) # "none"}
    IN  IF hits = {} THEN NoItem
        ELSE items[CHOOSE i \in hits : \A j \in hits : i <= j]

\* a fault: the timing fallback is consulted before the names
check_latest_10_files_timing_first(listing, fallback, base_filename, original_filename) ==
    IF listing.status # "ok" THEN NoItem
    ELSE IF ~fallback.raised /\ ~fallback.item.nil THEN fallback.item
    ELSE FirstNameMatch(listing.items, base_filename, original_filename)

\* fallback is what the call of line 840 does: an element of
\* FindAnyRecentVideoCall(listing.items)
check_latest_10_files(listing, fallback, base_filename, original_filename) ==
    IF listing.status # "ok" THEN NoItem              \* lines 780-782, 842-844
    ELSE LET hit == FirstNameMatch(listing.items, base_filename, original_filename) IN
         IF ~hit.nil THEN hit                         \* line 821
         ELSE IF fallback.raised THEN NoItem          \* line 840 raises, lines 842-844
         ELSE fallback.item                           \* line 840

(***************************************************************************)
(* _find_latest_uploaded_file (lines 1367-1431)                            *)
(***************************************************************************)
\* lines 1388-1416: the indices of the items appended to candidates
Candidates(items) ==
    {i \in DOMAIN items :
        /\ IsVideo(items[i])
        /\ items[i].ctime # "missing"
        /\ TimeDiffComputed(items[i])
        /\ Abs(items[i].t) < WindowSeconds}

\* candidates.sort(key=time_diff) is stable: of the candidates with the least
\* time_diff the first of the list is candidates[0]
find_latest_uploaded_file(listing) ==
    IF listing.status # "ok" THEN NoItem              \* lines 1369-1371, 1429-1431
    ELSE LET c    == Candidates(listing.items)
             best == {i \in c : \A j \in c : Abs(listing.items[i].t) <= Abs(listing.items[j].t)}
         IN  IF c = {} THEN NoItem                    \* lines 1425-1427
             ELSE listing.items[CHOOSE i \in best : \A j \in best : i <= j]

(***************************************************************************)
(* _check_upload_completion_api (lines 1250-1291)                          *)
(***************************************************************************)
check_upload_completion_api(listing) ==
    IF listing.status # "ok" THEN FALSE               \* lines 1252-1253, 1289-1291
    ELSE \E i \in DOMAIN listing.items :
            /\ IsVideo(listing.items[i])
            /\ listing.items[i].ctime # "missing"
            /\ TimeDiffComputed(listing.items[i])
            /\ 0 - ToleranceSeconds < listing.items[i].t
            /\ listing.items[i].t < WindowSeconds


(***************************************************************************)
(* State                                                                   *)
(***************************************************************************)
VARIABLES
    threads,        \* main.py: the threads started by on_created, in order
    fileExists,     \* main.py: the files of the camera folder, by path
    photosRunning,  \* main.py: whether the Google Photos app is running
    google_photos_service,  \* main.py: "ready", or "none" for None (lines 56, 60-83)
    detected,       \* main.py: the number of "New MKV file detected" events
    call,           \* a single call of one of the lookup functions
    dl,             \* bot.py: the handler task of every download
    active_downloads,   \* bot.py: the dict of line 25, by download id
    tmpExists,      \* bot.py: the files of tempfile.gettempdir(), by name
    cb,             \* bot.py: the cancel callback being handled
    clicks          \* bot.py: the number of cancel callbacks so far

mainVars == <<threads, fileExists, photosRunning, google_photos_service,
              has_find_any_recent_video, telegram_api, detected>>

botVars == <<dl, active_downloads, tmpExists, cb, clicks>>

vars == <<threads, fileExists, photosRunning, google_photos_service,
          has_find_any_recent_video, telegram_api, detected, call,
          dl, active_downloads, tmpExists, cb, clicks>>

\* the downloads and the cancel callbacks of one run of the model
MaxDownloads == 2

MaxClicks == 2

\* the chunks of one response body
MaxChunks == 1

Downloads == 1..MaxDownloads

\* file names of the downloads
TmpNames == {"a.mkv", "b.mkv"}

IdleDownload ==
    [kind |-> "none", pc |-> "idle", name |-> "a.mkv", status |-> 0, written |-> 0,
     total |-> 0, cancelPending |-> FALSE, msgs |-> << >>, cancelAccepted |-> FALSE,
     msgsAtCancel |-> 0, moved |-> FALSE, ended |-> "", fileAtEnd |-> FALSE,
     flagSetInBody |-> FALSE, writtenAfterFlag |-> FALSE, progressFailed |-> FALSE,
     lastPercent |-> -1, silence |-> 0]

BotIdle ==
    /\ dl = [d \in Downloads |-> IdleDownload]
    /\ active_downloads = [d \in Downloads |-> [present |-> FALSE, cancelled |-> FALSE]]
    /\ tmpExists = [n \in TmpNames |-> FALSE]
    /\ cb = [pc |-> "idle", target |-> 1, keyError |-> FALSE]
    /\ clicks = 0

\* sequences over S of length at most n
SeqUpTo(S, n) == UNION {[1..k -> S] : k \in 0..n}

\* the longest mediaItems list of a lookup call
MaxItems == 2

(***************************************************************************)
(* Local file names                                                        *)
(***************************************************************************)
NameTrip == <<"t","r","i","p",".","m","k","v">>

\* an upper-case extension: on_created accepts it (line 87), replace('.mkv', '')
\* of line 895 does not remove it
NameClipUpper == <<"C","L","I","P",".","M","K","V">>

NameHoliday == <<"h","o","l","i","d","a","y"," ","f","i","l","m",".","m","k","v">>

LocalNames == {NameTrip, NameClipUpper, NameHoliday}

(***************************************************************************)
(* Calls of the lookup functions on their own: the arguments are drawn in  *)
(* the initial state, the action applies the function.                     *)
(***************************************************************************)
IdleCall == [fn |-> "none", done |-> FALSE, filename |-> << >>,
             listing |-> Listing("no_service", << >>),
             fallback |-> [raised |-> TRUE, item |-> NoItem],
             found |-> FALSE, result |-> NoItem, match |-> "none"]

MainIdle ==
    /\ threads = << >>
    /\ fileExists = [p \in {} |-> FALSE]
    /\ photosRunning = FALSE
    /\ google_photos_service = "none"
    /\ detected = 0
    /\ BotIdle

\* remote file names of the name lookup
RemoteNames ==
    { <<"t","r","i","p",".","m","p","4">>,                       \* the stem of NameTrip
      <<"M","y"," ","T","r","i","p",".","m","p","4">>,           \* contains "trip"
      <<"h","o","l","i","d","a","y",".","m","o","v">>,           \* a word of NameHoliday
      <<"V","I","D","_","9","9","8",".","m","p","4">> }          \* unrelated

MatchItems ==
    { MediaItem(n, m, "naive", t, "id", "purl", "burl") :
        n \in RemoteNames, m \in {"video/mp4", "image/jpeg"}, t \in {40, 4000} }

MatchListings ==
    {Listing("no_service", << >>), Listing("error", << >>)}
    \cup {Listing("ok", items) : items \in SeqUpTo(MatchItems, MaxItems)}

InitMatch ==
    /\ MainIdle
    /\ has_find_any_recent_video \in BOOLEAN
    /\ telegram_api = "up"
    /\ \E n \in LocalNames, l \in MatchListings :
          call = [IdleCall EXCEPT !.fn = "check_latest_10_files",
                                  !.filename = n, !.listing = l]

CallCheckLatest10Files ==
    /\ call.fn = "check_latest_10_files"
    /\ ~call.done
    /\ \E fb \in FindAnyRecentVideoCall(call.listing.items) :
          call' = [call EXCEPT
                      !.done = TRUE,
                      !.fallback = fb,
                      !.result = check_latest_10_files(call.listing, fb,
                                     BaseFilename(call.filename), call.filename)]
    /\ UNCHANGED <<mainVars, botVars>>

NextMatch == CallCheckLatest10Files

SpecMatch == InitMatch /\ [][NextMatch]_vars

(***************************************************************************)
(* Calls of the matcher on one pair of names: the local file name and the  *)
(* file name of one remote video record (lines 796, 803, 813).             *)
(***************************************************************************)
PairLocalNames ==
    LocalNames \cup
    { <<"a","b","c",".","m","k","v">>,
      <<"m","o","v","i","e",".","2","0","2","4",".","1","0","8","0","p",".","m","k","v">>,
      <<"a",".","m","p","4",".","m","k","v">>,
      <<"a","l","p","h","a"," ","b","r","a","v","o"," ","c","h","a","r","l","i","e"," ","d","e","l","t","a"," ","e","c","h","o","e","s",".","m","k","v">> }

PairRemoteNames ==
    RemoteNames \cup
    { <<"c","l","i","p",".","m","o","v">>,
      <<"a","b","c",".","a","v","i">>,
      <<"x","a","b","c","x",".","m","p","4">>,
      <<"M","y"," ","h","o","l","i","d","a","y",".","m","p","4">>,
      <<"i","d","a","y"," ","f","i",".","m","p","4">>,
      <<"m","o","v","i","e"," ","2","0","2","4"," ","1","0","8","0","p",".","m","k","v">>,
      <<"a",".","m","p","4",".","m","p","4">>,
      <<"d","e","l","t","a"," ","e","c","h","o","e","s",".","m","p","4">>,
      <<"H","o","l","i","d","a","y"," ","F","i","l","m",".","M","P","4">>,
      <<"f","i","l","m"," ","h","o","l","i","d","a","y",".","m","o","v">>,
      <<"d","e","l","t","a"," ","e","c","h","o","e","s",".","a","v","i">> }

InitNames ==
    /\ MainIdle
    /\ has_find_any_recent_video = FALSE
    /\ telegram_api = "up"
    /\ \E n \in PairLocalNames, r \in PairRemoteNames :
          call = [IdleCall EXCEPT
                     !.fn = "enhanced_filename_match",
                     !.filename = n,
                     !.listing = Listing("ok", <<MediaItem(r, "video/mp4", "naive", 40,
                                                           "id", "purl", "burl")>>)]

CallEnhancedFilenameMatch ==
    /\ call.fn = "enhanced_filename_match"
    /\ ~call.done
    /\ call' = [call EXCEPT
                   !.done = TRUE,
                   !.match = ItemNameMatch(call.listing.items[1],
                                           BaseFilename(call.filename), call.filename)]
    /\ UNCHANGED <<mainVars, botVars>>

NextNames == CallEnhancedFilenameMatch

SpecNames == InitNames /\ [][NextNames]_vars

\* creation times relative to upload_start_time, in seconds
TimeOffsets == {0 - 3600, 0 - 3599, 0 - 100, 0, 40, 3599, 3600}

WindowItems ==
    { MediaItem(<<"v",".","m","p","4">>, m, c.ctime, c.t, "id", "purl", "burl") :
        m \in {"video/mp4", "image/jpeg"},
        c \in {[ctime |-> "missing", t |-> 0], [ctime |-> "aware", t |-> 40]}
              \cup {[ctime |-> "naive", t |-> t] : t \in TimeOffsets} }

WindowListings ==
    {Listing("no_service", << >>), Listing("error", << >>)}
    \cup {Listing("ok", items) : items \in SeqUpTo(WindowItems, MaxItems)}

InitWindow ==
    /\ MainIdle
    /\ has_find_any_recent_video = FALSE
    /\ telegram_api = "up"
    /\ \E l \in WindowListings, f \in {"find_latest_uploaded_file",
                                       "check_upload_completion_api"} :
          call = [IdleCall EXCEPT !.fn = f, !.filename = NameTrip, !.listing = l]

CallFindLatestUploadedFile ==
    /\ call.fn = "find_latest_uploaded_file"
    /\ ~call.done
    /\ call' = [call EXCEPT !.done = TRUE,
                            !.result = find_latest_uploaded_file(call.listing)]
    /\ UNCHANGED <<mainVars, botVars>>

CallCheckUploadCompletionApi ==
    /\ call.fn = "check_upload_completion_api"
    /\ ~call.done
    /\ call' = [call EXCEPT !.done = TRUE,
                            !.found = check_upload_completion_api(call.listing)]
    /\ UNCHANGED <<mainVars, botVars>>

NextWindow == CallFindLatestUploadedFile \/ CallCheckUploadCompletionApi

SpecWindow == InitWindow /\ [][NextWindow]_vars


(***************************************************************************)
(* main.py: on_created and the thread it starts for every new .mkv file    *)
(***************************************************************************)
\* the .mkv creation events of one run of the model
MaxEvents == 2

NameNotes == <<"n","o","t","e","s",".","t","x","t">>

\* the files whose creation the watcher reports
EventNames == {NameTrip, NameClipUpper, NameNotes}

\* str.endswith
EndsWith(s, suffix) ==
    Len(s) >= Len(suffix) /\ MatchAt(s, suffix, Len(s) - Len(suffix) + 1)

\* line 87
Accepted(is_directory, src_path) == ~is_directory /\ EndsWith(Lower(src_path), ExtMkv)

\* the files of the camera folder that on_created starts a thread for
WatchedFiles == {n \in EventNames : Accepted(FALSE, n)}

\* os.path.getsize, in bytes
FileSizes == {10 * 1048576}

\* _calculate_max_wait_time (lines 1234-1248); file_size_mb < n is
\* file_size_bytes < n * 1024 * 1024
calculate_max_wait_time(file_size_bytes) ==
    IF file_size_bytes < 50 * 1048576 THEN 120
    ELSE IF file_size_bytes < 200 * 1048576 THEN 300
    ELSE IF file_size_bytes < 500 * 1048576 THEN 600
    ELSE IF file_size_bytes < 1000 * 1048576 THEN 900
    ELSE 1200

\* check_interval of _monitor_upload_realtime (line 1203)
CheckInterval == 15

\* the period of the progress updates of _monitor_upload_realtime (line 1226)
ProgressPeriod == 60

\* remote records of the runs of the watcher
ItemExact ==
    MediaItem(<<"t","r","i","p",".","m","p","4">>, "video/mp4", "naive", 40, "id", "purl", "burl")

ItemNoLink ==
    MediaItem(<<"t","r","i","p",".","m","p","4">>, "video/mp4", "naive", 40, "", "", "")

ItemOtherNaive ==
    MediaItem(<<"V","I","D","_","9","9","8",".","m","p","4">>, "video/mp4", "naive", 40,
              "id", "", "burl")

ItemOtherAware ==
    MediaItem(<<"V","I","D","_","9","9","8",".","m","p","4">>, "video/mp4", "aware", 40,
              "id", "purl", "burl")

ItemOld ==
    MediaItem(<<"o","l","d",".","m","p","4">>, "video/mp4", "naive", 0 - 7200,
              "id", "purl", "burl")

RunItemLists ==
    { << >>, <<ItemExact>>, <<ItemNoLink>>, <<ItemOtherNaive>>, <<ItemOtherAware>>,
      <<ItemOld>>, <<ItemOtherNaive, ItemExact>> }

\* what mediaItems().list(...).execute() can give a run
ListCall ==
    IF google_photos_service = "none" THEN {Listing("no_service", << >>)}
    ELSE {Listing("error", << >>)} \cup {Listing("ok", items) : items \in RunItemLists}

NoLink == "None"

\* _create_automatic_share_link (lines 1433-1500): the shareable URL, or None
\* when there is no service, no id, a failing API call or no URL in the answer
CreateAutomaticShareLink(media_item) ==
    IF google_photos_service = "none" \/ media_item.id = "" THEN {NoLink}
    ELSE {NoLink, "https://photos.app.goo.gl/album"}

\* _create_fallback_share_link (lines 1502-1519)
create_fallback_share_link(media_item) ==
    IF media_item.productUrl # "" THEN media_item.productUrl
    ELSE IF media_item.baseUrl # "" THEN media_item.baseUrl
    ELSE NoLink

Note(kind, link) == [kind |-> kind, link |-> link]

\* the notifications that report how the processing of a file ended
TerminalKinds ==
    {"instant_success", "timing_success", "success", "partial_success",
     "not_found", "timeout"}

NewThread(path) ==
    [path |-> path, pc |-> "start", file_size |-> 0, item |-> NoItem,
     max_wait_time |-> 0, total_waited |-> 0, notes |-> << >>,
     raisedAt |-> 0 - 1, deleted |-> "not_called", fileAtReturn |-> FALSE,
     fallbackCase |-> FALSE, sendRaised |-> FALSE]

Set(i, rec) == threads' = [threads EXCEPT ![i] = rec]

Send(t, kind, link) == Append(t.notes, Note(kind, link))

\* raise inside the try block of _process_file_automatic
Raise(t) == [t EXCEPT !.pc = "except", !.raisedAt = Len(t.notes)]

\* requests.post (line 1661): status 200, another status, or an exception
DeliveryOutcomes ==
    IF telegram_api = "up" THEN {"ok"} ELSE {"http_error", "raised"}

\* a fault: the exception of requests.post is not caught
send_telegram_message_propagate(outcome) ==
    IF outcome = "raised" THEN "raised" ELSE "returned"

\* _send_telegram_message (lines 1655-1669): every outcome is logged
send_telegram_message(outcome) == "returned"

\* the thread after a step that sends notifications and leaves it as rec
Sent(rec) ==
    { IF send_telegram_message(outcome) = "raised"
      THEN [Raise(rec) EXCEPT !.sendRaised = TRUE]
      ELSE rec :
      outcome \in DeliveryOutcomes }

\* lines 92-94: on_created starts a thread whatever the other threads do
StartsThread(ts) == TRUE

\* on_created (lines 85-94); the creation of the file comes with the event
OnCreated ==
    \E src_path \in EventNames, is_directory \in BOOLEAN :
        /\ detected < MaxEvents
        /\ IF Accepted(is_directory, src_path)
           THEN /\ fileExists' = [fileExists EXCEPT ![src_path] = TRUE]
                /\ detected' = detected + 1
                /\ threads' = IF StartsThread(threads)
                              THEN Append(threads, NewThread(src_path))
                              ELSE threads
           ELSE UNCHANGED <<fileExists, detected, threads>>
        /\ UNCHANGED <<photosRunning, google_photos_service, has_find_any_recent_video, telegram_api,
                 call, botVars>>


(***************************************************************************)
(* _process_file_automatic (lines 892-1019), one action per step           *)
(***************************************************************************)
\* lines 894-904: time.sleep(3), os.path.exists
CheckExists(i) ==
    LET t == threads[i] IN
    /\ t.pc = "start"
    /\ IF fileExists[t.path]
       THEN Set(i, [t EXCEPT !.pc = "getsize"])
       ELSE Set(i, [t EXCEPT !.pc = "returned"])                 \* line 904
    /\ UNCHANGED <<fileExists, photosRunning, google_photos_service, has_find_any_recent_video, telegram_api, detected,
                 call, botVars>>

\* lines 906-910: os.path.getsize raises OSError when the file is gone;
\* then the start notification
GetSize(i) ==
    LET t == threads[i] IN
    /\ t.pc = "getsize"
    /\ IF fileExists[t.path]
       THEN \E size \in FileSizes :
            \E r \in Sent([t EXCEPT !.pc = "open", !.file_size = size,
                                     !.notes = Send(t, "immediate_check", "")]) :
               Set(i, r)
       ELSE Set(i, Raise(t))
    /\ UNCHANGED <<fileExists, photosRunning, google_photos_service, has_find_any_recent_video, telegram_api, detected,
                 call, botVars>>

\* lines 914-915, _open_google_photos (lines 1521-1540): the app is started,
\* or both "am start" commands fail with CalledProcessError (logged), or
\* subprocess.run raises another error (OSError: no "am"), which is not caught there
OpenGooglePhotos(i) ==
    LET t == threads[i] IN
    /\ t.pc = "open"
    /\ \E outcome \in {"opened", "failed", "raised"} :
          /\ photosRunning' = (photosRunning \/ outcome = "opened")
          /\ Set(i, IF outcome = "raised" THEN Raise(t) ELSE [t EXCEPT !.pc = "check"])
    /\ UNCHANGED <<fileExists, google_photos_service, has_find_any_recent_video, telegram_api, detected,
                 call, botVars>>

\* history: a lookup of the run got a list in which no video record matches
\* the file by name and some video record was created inside the window
\* after the start time
FallbackCase(listing, filename) ==
    /\ listing.status = "ok"
    /\ FirstNameMatch(listing.items, BaseFilename(filename), filename).nil
    /\ \E k \in DOMAIN listing.items :
          /\ IsVideo(listing.items[k])
          /\ listing.items[k].ctime # "missing"
          /\ listing.items[k].t >= 0
          /\ listing.items[k].t < WindowSeconds

\* line 919
CheckLatest(i) ==
    LET t == threads[i] IN
    /\ t.pc = "check"
    /\ \E listing \in ListCall :
       \E fb \in FindAnyRecentVideoCall(listing.items) :
          LET existing_file == check_latest_10_files(listing, fb,
                                   BaseFilename(t.path), t.path)
          IN  Set(i, [t EXCEPT !.item = existing_file,
                               !.fallbackCase = FallbackCase(listing, t.path),
                               !.pc = IF existing_file.nil THEN "timing" ELSE "link_found"])
    /\ UNCHANGED <<fileExists, photosRunning, google_photos_service, has_find_any_recent_video, telegram_api, detected,
                 call, botVars>>

\* a fault: without a share link no notification is sent
ShareLink_without_fallback_link(i, at, success_kind) ==
    LET t == threads[i] IN
    /\ t.pc = at
    /\ \E share_link \in CreateAutomaticShareLink(t.item) :
          Set(i, [t EXCEPT
                    !.pc = "force_stop",
                    !.notes = IF share_link # NoLink
                              THEN Send(t, success_kind, share_link)
                              ELSE t.notes])
    /\ UNCHANGED <<fileExists, photosRunning, google_photos_service, has_find_any_recent_video, telegram_api,
                   detected, call, botVars>>

\* lines 925-932, 969-975, 996-1002: the share link and its notification
ShareLink(i, at, success_kind) ==
    LET t == threads[i] IN
    /\ t.pc = at
    /\ \E share_link \in CreateAutomaticShareLink(t.item) :
       \E r \in Sent([t EXCEPT
                    !.pc = "force_stop",
                    !.notes = IF share_link # NoLink
                              THEN Send(t, success_kind, share_link)
                              ELSE Send(t, "partial_success",
                                        create_fallback_share_link(t.item))]) :
          Set(i, r)
    /\ UNCHANGED <<fileExists, photosRunning, google_photos_service, has_find_any_recent_video, telegram_api, detected,
                 call, botVars>>

LinkFound(i) == ShareLink(i, "link_found", "instant_success")

\* lines 944-966: the second query; with no service, a failing query or no
\* _find_any_recent_video the statement raises
TimingSearch(i) ==
    LET t == threads[i] IN
    /\ t.pc = "timing"
    /\ \E listing \in ListCall :
          IF listing.status # "ok" THEN Set(i, Raise(t))
          ELSE \E fb \in FindAnyRecentVideoCall(listing.items) :
                  IF fb.raised THEN Set(i, Raise(t))
                  ELSE IF ~fb.item.nil
                  THEN \E r \in Sent([t EXCEPT
                                        !.item = fb.item, !.pc = "link_timing",
                                        !.fallbackCase = @ \/ FallbackCase(listing, t.path),
                                        !.notes = Send(t, "fallback_match", "")]) :
                          Set(i, r)
                  ELSE Set(i, [t EXCEPT !.pc = "monitor"])
    /\ UNCHANGED <<fileExists, photosRunning, google_photos_service, has_find_any_recent_video, telegram_api, detected,
                 call, botVars>>

LinkTiming(i) == ShareLink(i, "link_timing", "timing_success")

\* lines 985-987, 1202-1209
StartMonitoring(i) ==
    LET t == threads[i] IN
    /\ t.pc = "monitor"
    /\ \E r \in Sent([t EXCEPT !.pc = "poll",
                        !.max_wait_time = calculate_max_wait_time(t.file_size),
                        !.total_waited = 0,
                        !.notes = Send(t, "monitoring_fallback", "")
                                     \o <<Note("realtime_start", "")>>]) :
          Set(i, r)
    /\ UNCHANGED <<fileExists, photosRunning, google_photos_service, has_find_any_recent_video, telegram_api, detected,
                 call, botVars>>

\* a fault: the timeout path returns without its cleanup
AfterTimeout_keep_file == "returned"

\* lines 1005-1010: the cleanup follows the timeout notification
AfterTimeout == "force_stop"

\* a fault: the loop polls once more when the maximum is reached
KeepsPolling_at_maximum(total_waited, max_wait_time) == total_waited <= max_wait_time

\* line 1211
KeepsPolling(total_waited, max_wait_time) == total_waited < max_wait_time

\* one turn of the loop of _monitor_upload_realtime (lines 1211-1232), and
\* line 1006 when the loop ends
Poll(i) ==
    LET t == threads[i] IN
    /\ t.pc = "poll"
    /\ IF KeepsPolling(t.total_waited, t.max_wait_time)
       THEN \E listing \in ListCall :
               LET waited == t.total_waited + CheckInterval IN
               IF check_upload_completion_api(listing)
               THEN \E r \in Sent([t EXCEPT !.total_waited = 0, !.pc = "find_latest",
                                     !.notes = Send(t, "quick_detection", "")]) :
                       Set(i, r)
               ELSE IF waited % ProgressPeriod = 0
               THEN \E r \in Sent([t EXCEPT !.total_waited = waited,
                                     !.notes = Send(t, "progress_update", "")]) :
                       Set(i, r)
               ELSE Set(i, [t EXCEPT !.total_waited = waited])
       ELSE \E r \in Sent([t EXCEPT !.pc = AfterTimeout, !.total_waited = 0,
                             !.fileAtReturn = fileExists[t.path],
                             !.notes = Send(t, "timeout", "")]) :
               Set(i, r)
    /\ UNCHANGED <<fileExists, photosRunning, google_photos_service, has_find_any_recent_video, telegram_api, detected,
                 call, botVars>>

\* lines 993-1004
FindLatest(i) ==
    LET t == threads[i] IN
    /\ t.pc = "find_latest"
    /\ \E listing \in ListCall :
          LET latest_media_item == find_latest_uploaded_file(listing) IN
          IF latest_media_item.nil
          THEN \E r \in Sent([t EXCEPT !.pc = "force_stop",
                                !.notes = Send(t, "not_found", "")]) :
                  Set(i, r)
          ELSE Set(i, [t EXCEPT !.item = latest_media_item, !.pc = "link_latest"])
    /\ UNCHANGED <<fileExists, photosRunning, google_photos_service, has_find_any_recent_video, telegram_api, detected,
                 call, botVars>>

LinkLatest(i) == ShareLink(i, "link_latest", "success")

\* lines 935, 978, 1009: _force_stop_google_photos (lines 1542-1561) catches
\* every error of its commands
ForceStop(i) ==
    LET t == threads[i] IN
    /\ t.pc = "force_stop"
    /\ photosRunning' = FALSE
    /\ Set(i, [t EXCEPT !.pc = "delete"])
    /\ UNCHANGED <<fileExists, google_photos_service, has_find_any_recent_video, telegram_api, detected,
                 call, botVars>>

\* lines 936, 979, 1010: _delete_file (lines 1563-1570); an error of
\* os.remove is logged and the file stays
DeleteFile(i) ==
    LET t == threads[i] IN
    /\ t.pc = "delete"
    /\ \E removed \in BOOLEAN :
          LET exists == fileExists[t.path]
              after  == exists /\ ~removed
          IN  /\ fileExists' = [fileExists EXCEPT ![t.path] = after]
              /\ Set(i, [t EXCEPT !.pc = "returned",
                                  !.fileAtReturn = after,
                                  !.deleted = IF ~exists THEN "absent"
                                              ELSE IF removed THEN "removed"
                                              ELSE "failed"])
    /\ UNCHANGED <<photosRunning, google_photos_service, has_find_any_recent_video, telegram_api, detected,
                 call, botVars>>

\* a fault: the handler lets the exception out of the routine
AfterHandler_reraise == "escaped"

\* lines 1014-1019: the handler ends the routine normally
AfterHandler == "returned"

\* lines 1014-1019: the error is logged, the app is force-stopped; no
\* notification is sent and the file is not deleted
ExceptHandler(i) ==
    LET t == threads[i] IN
    /\ t.pc = "except"
    /\ photosRunning' = FALSE
    /\ Set(i, [t EXCEPT !.pc = AfterHandler, !.fileAtReturn = fileExists[t.path]])
    /\ UNCHANGED <<fileExists, google_photos_service, has_find_any_recent_video, telegram_api, detected,
                 call, botVars>>

\* the state after AutomaticLatestHandler() (lines 54-58, 1692)
InitMain ==
    /\ threads = << >>
    /\ fileExists = [p \in WatchedFiles |-> FALSE]
    /\ photosRunning = FALSE
    /\ google_photos_service \in {"none", "ready"}
    /\ has_find_any_recent_video \in BOOLEAN
    /\ detected = 0
    /\ call = IdleCall
    /\ BotIdle

\* api.telegram.org delivers every notification
Init ==
    /\ InitMain
    /\ telegram_api = "up"

Next ==
    \/ OnCreated
    \/ \E i \in DOMAIN threads : CheckExists(i)
    \/ \E i \in DOMAIN threads : GetSize(i)
    \/ \E i \in DOMAIN threads : OpenGooglePhotos(i)
    \/ \E i \in DOMAIN threads : CheckLatest(i)
    \/ \E i \in DOMAIN threads : LinkFound(i)
    \/ \E i \in DOMAIN threads : TimingSearch(i)
    \/ \E i \in DOMAIN threads : LinkTiming(i)
    \/ \E i \in DOMAIN threads : StartMonitoring(i)
    \/ \E i \in DOMAIN threads : Poll(i)
    \/ \E i \in DOMAIN threads : FindLatest(i)
    \/ \E i \in DOMAIN threads : LinkLatest(i)
    \/ \E i \in DOMAIN threads : ForceStop(i)
    \/ \E i \in DOMAIN threads : DeleteFile(i)
    \/ \E i \in DOMAIN threads : ExceptHandler(i)

Spec == Init /\ [][Next]_vars

\* the handler has the method _find_any_recent_video
InitFallback ==
    /\ Init
    /\ has_find_any_recent_video

SpecFallback == InitFallback /\ [][Next]_vars

\* no notification is delivered: requests.post raises or the answer is not 200
InitDelivery ==
    /\ InitMain
    /\ telegram_api = "down"

SpecDelivery == InitDelivery /\ [][Next]_vars


(***************************************************************************)
(* bot.py.  Every download runs in the task of its handler (handle_l or    *)
(* handle_direct_link, started by asyncio.create_task, lines 574-584); a   *)
(* task gives way to the others at its awaits only, so an action is the    *)
(* code between two awaits.  The application is built without              *)
(* concurrent_updates and the callback handler is a blocking handler       *)
(* (lines 572, 604): one cancel callback ends before the next begins.      *)
(* task.cancel() makes the task's pending await raise CancelledError,      *)
(* which is a BaseException.                                               *)
(***************************************************************************)
SetDl(d, rec) == dl' = [dl EXCEPT ![d] = rec]

\* the handler's task ended: the locals of download_with_progress are gone
Ended(t) ==
    [t EXCEPT !.pc = "done", !.cancelPending = FALSE, !.status = 0, !.written = 0,
              !.total = 0, !.lastPercent = -1, !.progressFailed = FALSE,
              !.silence = 0]

\* download_with_progress ended: "returned" (line 195), "cancelled" (the
\* CancelledError of lines 203, 143) or "failure" (lines 214, 225, 239)
Left(t, how, file) == [t EXCEPT !.ended = how, !.fileAtEnd = file]

\* line 159, in whole percent
Percent(downloaded, total) == IF total > 0 THEN (downloaded * 100) \div total ELSE 0

Msg(t, kind) == Append(t.msgs, kind)

\* the messages that report a finished download
SuccessKinds == {"download_complete", "file_uploaded", "downloaded"}

\* the awaits of the body of download_with_progress (lines 113-190)
BodyAwaits == {"start_edit", "connect", "read", "progress_edit", "closing"}

RemoveRecord(d) ==
    active_downloads' = [active_downloads EXCEPT ![d].present = FALSE]

\* lines 279-291, 410-423: the handler replies and calls download_with_progress
StartDownload(d) ==
    /\ dl[d].pc = "idle"
    /\ \A e \in Downloads : e < d => dl[e].pc # "idle"
    /\ \E kind \in {"handle_l", "handle_direct_link"},
          name \in (IF d = 1 THEN {"a.mkv"} ELSE TmpNames) :
          SetDl(d, [dl[d] EXCEPT !.kind = kind, !.name = name, !.pc = "register",
                                 !.msgs = <<"starting">>])
    /\ UNCHANGED <<mainVars, call, active_downloads, tmpExists, cb, clicks>>

\* lines 98-118: the record, then the message with the cancel button
Register(d) ==
    /\ dl[d].pc = "register"
    /\ active_downloads' = [active_downloads EXCEPT
                               ![d] = [present |-> TRUE, cancelled |-> FALSE]]
    /\ SetDl(d, [dl[d] EXCEPT !.pc = "start_edit", !.msgs = Msg(dl[d], "cancel_button")])
    /\ UNCHANGED <<mainVars, call, tmpExists, cb, clicks>>

\* the await of line 113 ends: the edit went through, or it raised and the
\* handler of line 226 edits the message
StartEdited(d) ==
    /\ dl[d].pc = "start_edit"
    /\ ~dl[d].cancelPending
    /\ \/ SetDl(d, [dl[d] EXCEPT !.pc = "connect"])
       \/ SetDl(d, [dl[d] EXCEPT !.pc = "generic_error",
                                 !.msgs = Msg(dl[d], "download_error")])
    /\ UNCHANGED <<mainVars, call, active_downloads, tmpExists, cb, clicks>>

\* lines 126-135: the response (its status is not read), its content-length
\* (0 when the header is missing) and open(dest_path, 'wb'), or a ClientError
\* and the handler of line 215
Connect(d) ==
    /\ dl[d].pc = "connect"
    /\ ~dl[d].cancelPending
    /\ \/ \E status \in {200, 404}, total \in 0..MaxChunks :
             /\ SetDl(d, [dl[d] EXCEPT !.pc = "read", !.status = status,
                                       !.total = total, !.written = 0])
             /\ tmpExists' = [tmpExists EXCEPT ![dl[d].name] = TRUE]
       \/ /\ SetDl(d, [dl[d] EXCEPT !.pc = "client_error",
                                    !.msgs = Msg(dl[d], "connection_error")])
          /\ UNCHANGED tmpExists
    /\ UNCHANGED <<mainVars, call, active_downloads, cb, clicks>>

\* a fault: the handler of line 196 ends without the raise of line 203
AfterCancelCleanup_return == "returned"

\* line 203
AfterCancelCleanup == "cancelled"

\* lines 196-203 and 318-320, 444-446: CancelledError in the body
CancelledInBody(d) ==
    /\ tmpExists' = [tmpExists EXCEPT ![dl[d].name] = FALSE]
    /\ RemoveRecord(d)
    /\ SetDl(d, Ended(Left(dl[d], AfterCancelCleanup, FALSE)))

\* the seconds of line 174
KeepAlivePeriod == 30

\* line 174
KeepAliveDue(current_time, last_activity_time) ==
    current_time - last_activity_time > KeepAlivePeriod

\* lines 152-153 and 173-184, with silence the seconds since the data before
\* this chunk: current_time is silence after the former last_activity_time,
\* line 153 makes last_activity_time equal to current_time, and then the
\* messages of the download after the test of line 174
KeepAlive(msgs, silence) ==
    LET current_time == silence
        last_activity_time == current_time
    IN  IF KeepAliveDue(current_time, last_activity_time)
        THEN Append(msgs, "keep_alive")
        ELSE msgs

\* a chunk and the clock: whether 5 s have passed since the last progress
\* report (line 156), and the seconds since the data before this chunk; a
\* report is never later than the data it reports (lines 153, 171)
ChunkTimes ==
    {<<FALSE, 0>>, <<TRUE, 0>>, <<TRUE, KeepAlivePeriod + 1>>}

\* lines 136-184: the next chunk, the end of the body, or a ClientError
ReadChunk(d) ==
    /\ dl[d].pc = "read"
    /\ ~dl[d].cancelPending
    /\ \/ /\ dl[d].written < (IF dl[d].total > 0 THEN dl[d].total ELSE MaxChunks)
          /\ IF ~active_downloads[d].present                  \* line 138: KeyError
             THEN /\ SetDl(d, [dl[d] EXCEPT !.pc = "generic_error",
                                            !.msgs = Msg(dl[d], "download_error")])
                  /\ UNCHANGED <<active_downloads, tmpExists>>
             ELSE IF active_downloads[d].cancelled            \* lines 138-143
             THEN CancelledInBody(d)
             ELSE /\ \E times \in ChunkTimes :                \* lines 145-184
                        LET due == times[1]
                            silence == times[2]
                        IN
                        SetDl(d, [dl[d] EXCEPT
                                    !.written = @ + 1,
                                    !.writtenAfterFlag = @ \/ dl[d].cancelAccepted,
                                    !.silence = silence,
                                    !.pc = IF due THEN "progress_edit" ELSE "read",
                                    !.lastPercent =
                                        IF due THEN Percent(dl[d].written + 1, dl[d].total)
                                        ELSE @,
                                    !.msgs = IF due THEN Msg(dl[d], "progress")
                                             ELSE KeepAlive(dl[d].msgs, silence)])
                  /\ UNCHANGED <<active_downloads, tmpExists>>
       \/ /\ dl[d].total = 0 \/ dl[d].written = dl[d].total
          /\ SetDl(d, [dl[d] EXCEPT !.pc = "closing", !.silence = 0])  \* lines 186-190
          /\ UNCHANGED <<active_downloads, tmpExists>>
       \/ /\ SetDl(d, [dl[d] EXCEPT !.pc = "client_error",
                                    !.msgs = Msg(dl[d], "connection_error")])
          /\ UNCHANGED <<active_downloads, tmpExists>>
    /\ UNCHANGED <<mainVars, call, cb, clicks>>

\* a fault: the error of the progress edit is not caught
AfterProgressFailure_abort == "generic_error"

\* lines 168-171: the error is logged and the loop goes on
AfterProgressFailure == "read"

\* lines 161-184: the progress edit ended, or it raised; then the test of
\* line 174
ProgressEdited(d) ==
    /\ dl[d].pc = "progress_edit"
    /\ ~dl[d].cancelPending
    /\ \/ SetDl(d, [dl[d] EXCEPT !.pc = "read",
                                 !.msgs = KeepAlive(dl[d].msgs, dl[d].silence)])
       \/ SetDl(d, [dl[d] EXCEPT !.pc = AfterProgressFailure, !.progressFailed = TRUE,
                                 !.msgs = KeepAlive(dl[d].msgs, dl[d].silence)])
    /\ UNCHANGED <<mainVars, call, active_downloads, tmpExists, cb, clicks>>

\* a fault: the record stays in active_downloads when the function returns
PresentAfterReturn_kept == TRUE

\* lines 192-193
PresentAfterReturn == FALSE

\* lines 191-195: the session is closed, the record removed, dest_path returned
Close(d) ==
    /\ dl[d].pc = "closing"
    /\ ~dl[d].cancelPending
    /\ active_downloads' = [active_downloads EXCEPT ![d].present = PresentAfterReturn]
    /\ SetDl(d, [Left(dl[d], "returned", tmpExists[dl[d].name]) EXCEPT
                     !.pc = IF dl[d].kind = "handle_l" THEN "post_check" ELSE "move"])
    /\ UNCHANGED <<mainVars, call, tmpExists, cb, clicks>>

\* task.cancel() takes effect at an await of the body
DeliverCancel(d) ==
    /\ dl[d].pc \in BodyAwaits
    /\ dl[d].cancelPending
    /\ CancelledInBody(d)
    /\ UNCHANGED <<mainVars, call, cb, clicks>>

\* lines 215-225: the await of the error message ends.  A CancelledError
\* there, or an error of the edit, leaves the handler before line 223
ClientErrorEdited(d) ==
    /\ dl[d].pc = "client_error"
    /\ IF dl[d].cancelPending
       THEN /\ SetDl(d, Ended(Left(dl[d], "cancelled", tmpExists[dl[d].name])))
            /\ UNCHANGED active_downloads
       ELSE /\ SetDl(d, Ended(Left([dl[d] EXCEPT !.msgs = Msg(dl[d], "error_reply")],
                                   "failure", tmpExists[dl[d].name])))
            /\ \/ RemoveRecord(d)
               \/ UNCHANGED active_downloads
    /\ UNCHANGED <<mainVars, call, tmpExists, cb, clicks>>

\* lines 226-239: the bare except of line 234 catches whatever the edit raises
GenericErrorEdited(d) ==
    /\ dl[d].pc = "generic_error"
    /\ RemoveRecord(d)
    /\ SetDl(d, Ended(Left([dl[d] EXCEPT !.msgs = Msg(dl[d], "error_reply")],
                           "failure", tmpExists[dl[d].name])))
    /\ UNCHANGED <<mainVars, call, tmpExists, cb, clicks>>

\* handle_l, lines 296-304
PostCheck(d) ==
    /\ dl[d].pc = "post_check"
    /\ IF ~tmpExists[dl[d].name]
       THEN SetDl(d, Ended([dl[d] EXCEPT !.msgs = Msg(dl[d], "download_failed")]))
       ELSE \/ SetDl(d, [dl[d] EXCEPT !.pc = "move",
                                      !.msgs = Msg(dl[d], "download_complete")])
            \/ SetDl(d, Ended([dl[d] EXCEPT \* the edit raises
                                      !.msgs = Msg(dl[d], "download_complete")
                                                  \o <<"error_reply">>]))
    /\ UNCHANGED <<mainVars, call, active_downloads, tmpExists, cb, clicks>>

\* lines 306-309, 428-431: shutil.move raises when the file is gone
Move(d) ==
    /\ dl[d].pc = "move"
    /\ IF tmpExists[dl[d].name]
       THEN /\ tmpExists' = [tmpExists EXCEPT ![dl[d].name] = FALSE]
            /\ SetDl(d, [dl[d] EXCEPT !.pc = "finish", !.moved = TRUE])
       ELSE /\ SetDl(d, Ended([dl[d] EXCEPT !.msgs = Msg(dl[d], "error_reply")]))
            /\ UNCHANGED tmpExists
    /\ UNCHANGED <<mainVars, call, active_downloads, cb, clicks>>

\* lines 311-317, 433-443
Finish(d) ==
    /\ dl[d].pc = "finish"
    /\ SetDl(d, Ended([dl[d] EXCEPT
                   !.msgs = Msg(dl[d], IF dl[d].kind = "handle_l" THEN "file_uploaded"
                                       ELSE "downloaded")]))
    /\ UNCHANGED <<mainVars, call, active_downloads, tmpExists, cb, clicks>>

(***************************************************************************)
(* handle_cancel_callback (lines 241-277)                                  *)
(***************************************************************************)
\* the cancel button of a download is pressed: the callback starts (line 244)
CancelClick(d) ==
    /\ cb.pc = "idle"
    /\ clicks < MaxClicks
    /\ dl[d].pc \notin {"idle", "register"}
    /\ cb' = [pc |-> "answer", target |-> d, keyError |-> FALSE]
    /\ clicks' = clicks + 1
    /\ UNCHANGED <<mainVars, call, dl, active_downloads, tmpExists>>

\* a fault: the callback does not look the download up
CancelAccepts_always(record) == TRUE

\* line 250
CancelAccepts(record) == record.present

\* lines 246-269 and 273-277, up to the await of the edit
CancelCheck ==
    LET d == cb.target IN
    /\ cb.pc = "answer"
    /\ IF CancelAccepts(active_downloads[d])
       THEN /\ active_downloads' = [active_downloads EXCEPT ![d].cancelled = TRUE]
            /\ tmpExists' = [tmpExists EXCEPT ![dl[d].name] = FALSE]
            /\ SetDl(d, [dl[d] EXCEPT
                           !.cancelPending = (dl[d].pc # "done"),   \* lines 254-256
                           !.msgs = Msg(dl[d], "cancelled"),
                           !.cancelAccepted = TRUE,
                           !.flagSetInBody = (dl[d].pc \in BodyAwaits),
                           !.msgsAtCancel = Len(dl[d].msgs) + 1])
            /\ cb' = [cb EXCEPT !.pc = "edit_cancelled"]
       ELSE /\ SetDl(d, [dl[d] EXCEPT !.msgs = Msg(dl[d], "no_longer_active")])
            /\ cb' = [cb EXCEPT !.pc = "edit_inactive"]
            /\ UNCHANGED <<active_downloads, tmpExists>>
    /\ UNCHANGED <<mainVars, call, clicks>>

\* line 272: del active_downloads[download_id] raises KeyError when the
\* record is gone; line 277 ends the callback
CancelFinish ==
    LET d == cb.target IN
    /\ cb.pc \in {"edit_cancelled", "edit_inactive"}
    /\ IF cb.pc = "edit_cancelled"
       THEN /\ RemoveRecord(d)
            /\ cb' = [cb EXCEPT !.pc = "idle", !.keyError = ~active_downloads[d].present]
       ELSE /\ cb' = [cb EXCEPT !.pc = "idle"]
            /\ UNCHANGED active_downloads
    /\ UNCHANGED <<mainVars, call, dl, tmpExists, clicks>>

InitBot ==
    /\ MainIdle
    /\ has_find_any_recent_video = FALSE
    /\ telegram_api = "up"
    /\ call = IdleCall

NextBot ==
    \/ \E d \in Downloads : StartDownload(d)
    \/ \E d \in Downloads : Register(d)
    \/ \E d \in Downloads : StartEdited(d)
    \/ \E d \in Downloads : Connect(d)
    \/ \E d \in Downloads : ReadChunk(d)
    \/ \E d \in Downloads : ProgressEdited(d)
    \/ \E d \in Downloads : Close(d)
    \/ \E d \in Downloads : DeliverCancel(d)
    \/ \E d \in Downloads : ClientErrorEdited(d)
    \/ \E d \in Downloads : GenericErrorEdited(d)
    \/ \E d \in Downloads : PostCheck(d)
    \/ \E d \in Downloads : Move(d)
    \/ \E d \in Downloads : Finish(d)
    \/ \E d \in Downloads : CancelClick(d)
    \/ CancelCheck
    \/ CancelFinish

SpecBot == InitBot /\ [][NextBot]_vars

\* one download and the presses of its cancel button
SingleDownload == {d \in Downloads : d = 1}

NextSingle ==
    \/ \E d \in SingleDownload : StartDownload(d)
    \/ \E d \in SingleDownload : Register(d)
    \/ \E d \in SingleDownload : StartEdited(d)
    \/ \E d \in SingleDownload : Connect(d)
    \/ \E d \in SingleDownload : ReadChunk(d)
    \/ \E d \in SingleDownload : ProgressEdited(d)
    \/ \E d \in SingleDownload : Close(d)
    \/ \E d \in SingleDownload : DeliverCancel(d)
    \/ \E d \in SingleDownload : ClientErrorEdited(d)
    \/ \E d \in SingleDownload : GenericErrorEdited(d)
    \/ \E d \in SingleDownload : PostCheck(d)
    \/ \E d \in SingleDownload : Move(d)
    \/ \E d \in SingleDownload : Finish(d)
    \/ \E d \in SingleDownload : CancelClick(d)
    \/ CancelCheck
    \/ CancelFinish

\* the steps that the event loop, the file system and the Telegram API (its
\* requests carry the timeouts of the library) bring to an end.  The answer
\* and the chunks of the download's source are not among them: the session
\* is made with ClientTimeout(total=None) (line 124), which sets no timeout,
\* and nothing in the loop of lines 136-184 runs while no chunk arrives
FairSteps ==
    /\ \A d \in SingleDownload :
          /\ WF_vars(Register(d))
          /\ WF_vars(StartEdited(d))
          /\ WF_vars(ProgressEdited(d))
          /\ WF_vars(Close(d))
          /\ WF_vars(DeliverCancel(d))
          /\ WF_vars(ClientErrorEdited(d))
          /\ WF_vars(GenericErrorEdited(d))
          /\ WF_vars(PostCheck(d))
          /\ WF_vars(Move(d))
          /\ WF_vars(Finish(d))
    /\ WF_vars(CancelCheck)
    /\ WF_vars(CancelFinish)

SpecSingleFair == InitBot /\ [][NextSingle]_vars /\ FairSteps


(***************************************************************************)
(* Properties                                                              *)
(***************************************************************************)
\* a run of _process_file_automatic that sent its start notification and
\* has not returned
Processing(t) == t.pc # "returned" /\ Len(t.notes) > 0

CountNotes(t, kinds) == Cardinality({j \in DOMAIN t.notes : t.notes[j].kind \in kinds})

CountKind(msgs, kind) == Cardinality({j \in DOMAIN msgs : msgs[j] = kind})

\* C1: at most one file is being processed at any time: two runs of
\* _process_file_automatic are never active together.
C1_AtMostOneProcessing ==
    Cardinality({i \in DOMAIN threads : Processing(threads[i])}) <= 1

\* C2: every run of _process_file_automatic that started processing its file
\* ends with exactly one terminal outcome notification, also when a step raised.
C2_ExactlyOneTerminalNote ==
    \A i \in DOMAIN threads :
        (threads[i].pc = "returned" /\ Len(threads[i].notes) > 0)
            => CountNotes(threads[i], TerminalKinds) = 1

C4_FailureIsNotified ==
    \A i \in DOMAIN threads :
        (threads[i].pc = "returned" /\ threads[i].raisedAt >= 0)
            => Len(threads[i].notes) > threads[i].raisedAt

\* C5: no exception of a step of _process_file_automatic leaves the routine,
\* and every detected file-creation event has its own run, before and after
\* the failure of another run.
C5_FailureStopsNothing ==
    /\ \A i \in DOMAIN threads : threads[i].pc # "escaped"
    /\ Len(threads) = detected

\* C5, its case: the run of the first event raised and returned, and the run
\* of a later event went on to its end without raising
C5_Witness ==
    /\ Len(threads) >= 2
    /\ threads[1].pc = "returned"
    /\ threads[1].raisedAt >= 0
    /\ threads[2].pc = "returned"
    /\ threads[2].raisedAt < 0
    /\ CountNotes(threads[2], TerminalKinds) = 1

\* C6: when the processing of a file ends with the timeout outcome, the local
\* file still exists when the routine returns.
C6_TimeoutKeepsFile ==
    \A i \in DOMAIN threads :
        (threads[i].pc = "returned" /\ CountNotes(threads[i], {"timeout"}) > 0)
            => threads[i].fileAtReturn

\* C6 as amended: when the processing of a file ends with the timeout outcome,
\* the routine goes on to _delete_file; the file is gone when the routine
\* returns unless os.remove failed.
C6_TimeoutDeletesFile ==
    \A i \in DOMAIN threads :
        (threads[i].pc = "returned" /\ CountNotes(threads[i], {"timeout"}) > 0)
            => /\ threads[i].deleted # "not_called"
               /\ threads[i].deleted # "failed" => ~threads[i].fileAtReturn

\* C6, its case: a run timed out and removed the file that was still there
C6_Witness ==
    \E i \in DOMAIN threads :
        /\ threads[i].pc = "returned"
        /\ CountNotes(threads[i], {"timeout"}) = 1
        /\ threads[i].deleted = "removed"
        /\ ~fileExists[threads[i].path]

\* C7: two creation events for one path, the second before the processing of
\* the first ended, give one pending entry: the path is not processed twice.
C7_SamePathOnce ==
    \A i, j \in DOMAIN threads :
        (i < j /\ threads[i].path = threads[j].path)
            => ~(Processing(threads[i]) /\ Processing(threads[j]))

\* the video records of the list that satisfy a name rule
NameMatches(c) ==
    {i \in DOMAIN c.listing.items :
        ItemNameMatch(c.listing.items[i], BaseFilename(c.filename), c.filename) # "none"}

\* C8: _check_latest_10_files returns a record of the timing fallback only if
\* no video record of the list satisfies a name rule; if one does, the record
\* returned satisfies a name rule.
C8_NameOutranksTiming ==
    (call.fn = "check_latest_10_files" /\ call.done /\ call.listing.status = "ok")
        => /\ NameMatches(call) # {}
                => /\ ~call.result.nil
                   /\ ItemNameMatch(call.result, BaseFilename(call.filename),
                                    call.filename) # "none"
           /\ (~call.result.nil /\ NameMatches(call) = {})
                => (~call.fallback.raised /\ call.result = call.fallback.item)

\* C8, its case: the timing fallback offers one record, another record matches
\* by name, and the one that matches by name is returned
C8_Witness ==
    /\ call.fn = "check_latest_10_files"
    /\ call.done
    /\ ~call.fallback.raised
    /\ ~call.fallback.item.nil
    /\ NameMatches(call) # {}
    /\ call.result # call.fallback.item
    /\ ItemNameMatch(call.fallback.item, BaseFilename(call.filename), call.filename) = "none"

\* the video records of the list whose creation time is inside the window
InWindow(c) ==
    {i \in DOMAIN c.listing.items :
        /\ IsVideo(c.listing.items[i])
        /\ c.listing.items[i].ctime # "missing"
        /\ Abs(c.listing.items[i].t) < WindowSeconds}

\* C9: _find_latest_uploaded_file never returns a record whose creation time
\* is outside the window of 3600 s around the start time, and when a video
\* record is inside the window it returns one of least absolute offset among them.
C9_WindowAndClosest ==
    (call.fn = "find_latest_uploaded_file" /\ call.done /\ call.listing.status = "ok")
        => /\ ~call.result.nil => Abs(call.result.t) < WindowSeconds
           /\ InWindow(call) # {}
                => /\ ~call.result.nil
                   /\ \A i \in InWindow(call) :
                         Abs(call.result.t) <= Abs(call.listing.items[i].t)

LinkKinds == {"instant_success", "timing_success", "partial_success"}

Stem(name) ==
    LET dots == {i \in DOMAIN name : name[i] = "."} IN
    IF dots = {} THEN name
    ELSE Take(name, (CHOOSE i \in dots : \A j \in dots : j <= i) - 1)

\* the extension, lower-cased, with its dot
Extension(name) == Lower(Drop(name, Len(Stem(name))))

LowerStem(name) == Lower(Stem(name))

\* whitespace-separated tokens longer than 3 characters and not purely numeric
NonTrivialTokens(name) ==
    {w \in Range(Split(LowerStem(name))) : Len(w) > 3 /\ ~IsDigit(w)}

SharedTokens(a, b) == NonTrivialTokens(a) \cap NonTrivialTokens(b)

SubstringRelated(a, b) ==
    \/ Contains(LowerStem(b), LowerStem(a))
    \/ Contains(LowerStem(a), LowerStem(b))

\* the matcher has been applied to the pair (local name, remote name)
Matched == call.fn = "enhanced_filename_match" /\ call.done

RemoteName == call.listing.items[1].filename

\* the extensions the matcher removes (line 301)
KnownExtensions == {ExtMkv, ExtMp4, ExtMov}

PlainStem(name) == \A e \in KnownExtensions : ~Contains(LowerStem(name), e)

\* C12: a pair of names that shares at most one non-trivial token and in which
\* neither stem is a substring of the other is rejected by the name rules.
C12_UnrelatedNamesRejected ==
    (/\ Matched
     /\ Cardinality(SharedTokens(call.filename, RemoteName)) <= 1
     /\ ~SubstringRelated(call.filename, RemoteName))
        => call.match = "none"

\* C13: two names whose stems are equal, letter case ignored, are accepted by
\* the exact-match rule whatever their extensions.
C13_EqualStemsExact ==
    (Matched /\ LowerStem(call.filename) = LowerStem(RemoteName))
        => call.match = "exact_filename_match"

\* C13 as amended: two names whose stems are equal, letter case ignored, and
\* contain none of ".mkv", ".mp4", ".mov" are accepted by the exact-match rule
\* when the extension of the remote name is one of .mkv, .mp4, .mov (in any
\* letter case; the local name ends in .mkv).
C13_EqualStemsKnownExtension ==
    (/\ Matched
     /\ LowerStem(call.filename) = LowerStem(RemoteName)
     /\ Extension(call.filename) = ExtMkv
     /\ Extension(RemoteName) \in KnownExtensions
     /\ PlainStem(call.filename))
        => call.match = "exact_filename_match"

\* C13, its case: CLIP.MKV and clip.mov, accepted by the exact-match rule
C13_Witness ==
    /\ Matched
    /\ call.filename = NameClipUpper
    /\ Extension(RemoteName) = ExtMov
    /\ LowerStem(call.filename) = LowerStem(RemoteName)
    /\ call.match = "exact_filename_match"

\* C14: when the stem of one name is a substring of the stem of the other, in
\* either direction and whatever the length, the pair is accepted (by the
\* substring rule unless the exact-match rule accepted it).
C14_SubstringAccepted ==
    (/\ Matched
     /\ LowerStem(call.filename) # LowerStem(RemoteName)
     /\ SubstringRelated(call.filename, RemoteName))
        => call.match # "none"

\* C15: a pair of names that shares at least two non-trivial tokens is
\* accepted, by the word-overlap rule unless an earlier rule accepted it.
C15_TwoSharedTokensAccepted ==
    (Matched /\ Cardinality(SharedTokens(call.filename, RemoteName)) >= 2)
        => call.match \in {"exact_filename_match", "search_term_match", "word_match"}

\* C15 as amended: a pair of names that shares at least two non-trivial
\* tokens is accepted, by the word-overlap rule unless an earlier rule
\* accepted it, when the extension of the remote name is one of .mkv, .mp4,
\* .mov and neither stem contains one of these strings.
C15_TwoSharedTokensKnownExtension ==
    (/\ Matched
     /\ Cardinality(SharedTokens(call.filename, RemoteName)) >= 2
     /\ Extension(call.filename) = ExtMkv
     /\ Extension(RemoteName) \in KnownExtensions
     /\ PlainStem(call.filename)
     /\ PlainStem(RemoteName))
        => call.match \in {"exact_filename_match", "search_term_match", "word_match"}

\* C15, its case: the two shared tokens are not among the search terms, and
\* the word-overlap rule accepts
C15_Witness ==
    /\ Matched
    /\ Cardinality(SharedTokens(call.filename, RemoteName)) = 2
    /\ Extension(RemoteName) = ExtMp4
    /\ call.match = "word_match"

\* C16: a local name and a remote name whose stems differ only in "." against
\* " " as the separator of words (movie.2024.1080p.mkv and
\* "movie 2024 1080p.mkv") are accepted as an exact match.
C16_SeparatorNormalised ==
    (/\ Matched
     /\ LowerStem(call.filename) # LowerStem(RemoteName)
     /\ Replace(LowerStem(call.filename), <<".">>, <<" ">>) = LowerStem(RemoteName))
        => call.match = "exact_filename_match"

\* C17: the cancelled flag is looked at before a received chunk is written; once
\* the flag was set during the body of download_with_progress no chunk is
\* written any more, and the function ends with the CancelledError, the
\* destination file removed: it neither returns nor ends with a failure.
C17_CancelEndsDownload ==
    \A d \in Downloads :
        dl[d].flagSetInBody =>
            /\ ~dl[d].writtenAfterFlag
            /\ dl[d].ended # "" => (dl[d].ended = "cancelled" /\ ~dl[d].fileAtEnd)

\* C17, its case: a download that had written a chunk and reported progress
\* was cancelled during its body, and download_with_progress has ended
C17_Witness ==
    \E d \in Downloads :
        /\ dl[d].flagSetInBody
        /\ dl[d].ended = "cancelled"
        /\ \E j \in 1..(dl[d].msgsAtCancel - 1) : dl[d].msgs[j] = "progress"

\* C18: a response whose status is not 200 makes download_with_progress fail:
\* nothing of its body is written and the function does not return dest_path.
C18_BadStatusFails ==
    \A d \in Downloads :
        dl[d].status \notin {0, 200} => (dl[d].written = 0 /\ dl[d].ended # "returned")

C20_FinalReportAtReturn ==
    \A d \in Downloads :
        (dl[d].ended = "returned" /\ dl[d].total > 0) => dl[d].lastPercent = 100

\* C21: no failure of the delivery of a notification leaves
\* _send_telegram_message, whether the HTTP call raises or answers with
\* another status than 200; a run that sent a terminal notification goes on
\* to the force-stop and to _delete_file whatever became of its deliveries.
C21_DeliveryFailureSwallowed ==
    \A i \in DOMAIN threads :
        /\ ~threads[i].sendRaised
        /\ (threads[i].pc = "returned" /\ CountNotes(threads[i], TerminalKinds) > 0)
              => threads[i].deleted # "not_called"

\* C21, its case: every delivery of the run failed, and the run made its
\* link, stopped the app and removed the file
C21_Witness ==
    \E i \in DOMAIN threads :
        /\ telegram_api = "down"
        /\ threads[i].pc = "returned"
        /\ CountNotes(threads[i], {"instant_success", "timing_success", "success"}) > 0
        /\ threads[i].deleted = "removed"

\* C22: the wait of _monitor_upload_realtime never goes beyond the maximum
\* that _calculate_max_wait_time gives for the size of the file; a run that
\* reached the maximum made every poll up to it, detected nothing, raised
\* nothing and sent the timeout notification, and a run whose poll detected
\* the upload stopped polling there.
C22_UploadWaitBounded ==
    \A i \in DOMAIN threads :
        LET t == threads[i] IN
        /\ t.pc = "poll" =>
              /\ t.max_wait_time = calculate_max_wait_time(t.file_size)
              /\ t.total_waited <= t.max_wait_time
        /\ CountNotes(t, {"timeout"}) > 0 =>
              /\ t.raisedAt < 0
              /\ CountNotes(t, {"quick_detection"}) = 0
              /\ CountNotes(t, {"progress_update"}) = t.max_wait_time \div ProgressPeriod
        /\ CountNotes(t, {"quick_detection"}) > 0 =>
              /\ t.pc # "poll"
              /\ CountNotes(t, {"timeout"}) = 0

\* C22, its case: a run polled up to the maximum and ended with the timeout
\* notification
C22_Witness ==
    \E i \in DOMAIN threads :
        /\ threads[i].pc = "returned"
        /\ threads[i].max_wait_time > 0
        /\ CountNotes(threads[i], {"timeout"}) = 1
        /\ CountNotes(threads[i], {"progress_update"}) > 0

\* C23: a download that waits for data of its source does not wait for ever:
\* download_with_progress ends, with a timeout when no data arrives.
C23_StalledDownloadEnds ==
    \A d \in Downloads : (dl[d].pc = "read") ~> (dl[d].ended # "")

\* C24: a download whose chunk came after more than 30 seconds without data
\* has sent a keep-alive message when it waits for the next chunk.
C24_KeepAliveAfterSilence ==
    \A d \in Downloads :
        (dl[d].pc = "read" /\ dl[d].silence > KeepAlivePeriod)
            => CountKind(dl[d].msgs, "keep_alive") > 0

\* C25: once download_with_progress has ended, by its return, a cancellation
\* or a failure, active_downloads has no record of that download, also when
\* the edit of the error message in a handler failed.
C25_NoRecordAfterEnd ==
    \A d \in Downloads : dl[d].ended # "" => ~active_downloads[d].present

\* C26: handle_cancel_callback never deletes a record that is already gone:
\* no callback ends with the KeyError of its del statement.
C26_RecordDeletedOnce == ~cb.keyError

\* the downloads that were started with the file name of download d
SameName(d) ==
    {e \in Downloads \ {d} : dl[e].pc # "idle" /\ dl[e].name = dl[d].name}

\* C27: a download for which a cancel request was accepted is never moved
\* into the Google Photos folder, and once its task has ended its temporary
\* file does not exist (the file of another download of the same name is not
\* its file).
C27_CancelledNeverMoved ==
    \A d \in Downloads :
        dl[d].cancelAccepted =>
            /\ ~dl[d].moved
            /\ dl[d].pc \notin {"move", "finish"}
            /\ (dl[d].pc = "done" /\ SameName(d) = {}) => ~tmpExists[dl[d].name]

\* C27, its case: a download that had written its file was cancelled during
\* its body, the callback has ended and so has the task
C27_Witness ==
    \E d \in Downloads :
        /\ dl[d].cancelAccepted
        /\ dl[d].flagSetInBody
        /\ dl[d].pc = "done"
        /\ cb.pc = "idle"
        /\ SameName(d) = {}
        /\ \E j \in 1..(dl[d].msgsAtCancel - 1) : dl[d].msgs[j] = "progress"

\* C28: a download that has opened its destination file, has not been
\* cancelled and has not returned still has that file, whatever happens to
\* the other downloads, those of the same file name included.
C28_DownloadsIsolated ==
    \A d \in Downloads :
        (dl[d].pc \in {"read", "progress_edit", "closing"} /\ ~dl[d].cancelAccepted)
            => tmpExists[dl[d].name]

\* C29: when a video record of the list matches the local file name exactly,
\* _check_latest_10_files returns a record that matches exactly, wherever
\* the records that match by a weaker rule stand in the list.
C29_ExactPreferred ==
    (call.fn = "check_latest_10_files" /\ call.done /\ call.listing.status = "ok")
        => ((\E i \in DOMAIN call.listing.items :
                ItemNameMatch(call.listing.items[i], BaseFilename(call.filename),
                              call.filename) = "exact_filename_match")
              => ItemNameMatch(call.result, BaseFilename(call.filename),
                               call.filename) = "exact_filename_match")

\* the notifications of a success and of a partial success
OutcomeWithLink == {"instant_success", "timing_success", "success", "partial_success"}

\* C30: every success or partial-success notification carries a share link
\* that is not empty (so that no file is removed after a notification
\* without a link).
C30_LinkInEveryOutcome ==
    \A i \in DOMAIN threads :
        \A j \in DOMAIN threads[i].notes :
            threads[i].notes[j].kind \in OutcomeWithLink =>
                threads[i].notes[j].link \notin {NoLink, ""}

=============================================================================
